---- MODULE Spec2Model ----
(***************************************************************************)
(* One trial of lwe_kernel (src/lwe_challenge.py): the parameter estimate, *)
(* the blocksize schedule, and the reduce / evaluate / lookahead / search  *)
(* loop with its finalizer.                                                *)
(*                                                                         *)
(* Numbers.  The program computes with floats; the model uses fixed point. *)
(*  - Squared lengths (profile entries r(i,i), target_norm) are kept as    *)
(*    1000*log2 of the value ("millibits"); products and quotients become  *)
(*    sums and differences, and every comparison of the code is kept as    *)
(*    the same comparison of logarithms.                                   *)
(*  - Durations are kept in milliseconds.                                  *)
(*  - 2**(expo*k) with expo = 0.292 is the table Pow2Expo, scaled by 1000. *)
(***************************************************************************)
EXTENDS Integers, Sequences, FiniteSets, TLC

NONE == "None"

(***************************************************************************)
(* Bounds of the model.                                                    *)
(***************************************************************************)
FullDim == 88
MaxTours == 2
MaxPredictedB == 110
MaxWindow == 100

(***************************************************************************)
(* Program constants.                                                      *)
(***************************************************************************)
RampLow == 10
ExplicitRampHigh == 40
DefaultRampHigh == 50
CoarseLow == 70
CoarseStep == 10
FineBelow == 15
FineLow == 13
FineHigh == 25
FineStep == 2
fpylll_crossover == 51
LookaheadSpan == 2
ScanLow == 2
NMaxMargin == 1

(***************************************************************************)
(* Python values that the schedule builder handles: a list and a range     *)
(* object are different types, and list.__add__ accepts only a list.       *)
(***************************************************************************)

RangeLen(lo, hi, step) == IF hi > lo THEN (hi - lo + step - 1) \div step ELSE 0

RangeItems(lo, hi, step) == [i \in 1..RangeLen(lo, hi, step) |-> lo + (i - 1) * step]

PyList(items) == [type |-> "list", items |-> items]

PyRange(lo, hi, step) == [type |-> "range", items |-> RangeItems(lo, hi, step)]

ListOfRange(rg) == PyList(rg.items)

TYPE_ERROR == [type |-> "TypeError", items |-> << >>]

ListAdd(x, y) ==
  IF x.type = "list" /\ y.type = "list" THEN PyList(x.items \o y.items) ELSE TYPE_ERROR

\* eval("range(%s)" % re.sub(":", ",", blocksizes)) for a "low:high:inc" text
EvalRange(spec) == PyRange(spec[1], spec[2], spec[3])

ExplicitSchedule(spec) ==
  ListAdd(ListOfRange(PyRange(RampLow, ExplicitRampHigh, 1)), EvalRange(spec))

DefaultSchedule(bb) ==
  ListAdd(ListAdd(ListAdd(ListOfRange(PyRange(RampLow, DefaultRampHigh, 1)),
                          ListOfRange(PyRange(CoarseLow, bb - FineBelow, CoarseStep))),
                  PyList(<<bb - FineBelow>>)),
          ListOfRange(PyRange(bb - FineLow, bb + FineHigh, FineStep)))

\* blocksizes is None: the empty tuple stands for None
BuildBlocksizes(spec, bb) ==
  IF spec # << >> THEN ExplicitSchedule(spec) ELSE DefaultSchedule(bb)

(***************************************************************************)
(* Fixed-point tables.                                                     *)
(*   Log2Milli[k]  = round(1000*log2(k)),                       k = 1..128 *)
(*   BallConst[n]  = round(1000*log2(Gamma(n/2+1)^(2/n)/pi)),   n = 1..128 *)
(*                   (the factor of gaussian_heuristic in rank n)          *)
(*   SvpTimes[n]   = ceiling(1000*2^(expo*(n-64))): 2**(expo*(n-64))       *)
(*                   seconds in milliseconds, rounded up,       n = 1..128 *)
(*   PowPos[k+1]   = round(1000*2^(expo*k)),                    k = 0..24  *)
(*   PowNeg[k]     = round(1000*2^(-expo*k)),                   k = 1..96  *)
(***************************************************************************)
Log2Milli ==
  << 0, 1000, 1585, 2000, 2322, 2585, 2807, 3000, 3170, 3322, 3459, 3585,
    3700, 3807, 3907, 4000, 4087, 4170, 4248, 4322, 4392, 4459, 4524, 4585,
    4644, 4700, 4755, 4807, 4858, 4907, 4954, 5000, 5044, 5087, 5129, 5170,
    5209, 5248, 5285, 5322, 5358, 5392, 5426, 5459, 5492, 5524, 5555, 5585,
    5615, 5644, 5672, 5700, 5728, 5755, 5781, 5807, 5833, 5858, 5883, 5907,
    5931, 5954, 5977, 6000, 6022, 6044, 6066, 6087, 6109, 6129, 6150, 6170,
    6190, 6209, 6229, 6248, 6267, 6285, 6304, 6322, 6340, 6358, 6375, 6392,
    6409, 6426, 6443, 6459, 6476, 6492, 6508, 6524, 6539, 6555, 6570, 6585,
    6600, 6615, 6629, 6644, 6658, 6672, 6687, 6700, 6714, 6728, 6741, 6755,
    6768, 6781, 6794, 6807, 6820, 6833, 6845, 6858, 6870, 6883, 6895, 6907,
    6919, 6931, 6943, 6954, 6966, 6977, 6989, 7000 >>

BallConst ==
  << -2000, -1651, -1378, -1151, -958, -790, -640, -505, -383, -270, -166,
    -70, 21, 106, 185, 261, 333, 401, 466, 528, 587, 644, 699, 751, 802,
    851, 899, 944, 989, 1032, 1074, 1114, 1154, 1192, 1229, 1266, 1301,
    1336, 1369, 1402, 1435, 1466, 1497, 1527, 1557, 1586, 1614, 1642, 1669,
    1696, 1722, 1748, 1773, 1798, 1822, 1847, 1870, 1893, 1916, 1939, 1961,
    1983, 2004, 2025, 2046, 2067, 2087, 2107, 2127, 2146, 2166, 2184, 2203,
    2222, 2240, 2258, 2276, 2293, 2310, 2327, 2344, 2361, 2378, 2394, 2410,
    2426, 2442, 2457, 2473, 2488, 2503, 2518, 2533, 2548, 2562, 2577, 2591,
    2605, 2619, 2633, 2646, 2660, 2673, 2687, 2700, 2713, 2726, 2739, 2751,
    2764, 2776, 2789, 2801, 2813, 2825, 2837, 2849, 2861, 2872, 2884, 2896,
    2907, 2918, 2929, 2941, 2952, 2963, 2973 >>

SvpTimes ==
  << 1, 1, 1, 1, 1, 1, 1, 1, 1, 1, 1, 1, 1, 1, 1, 1, 1, 1, 1, 1, 1, 1, 1, 1,
    1, 1, 1, 1, 1, 2, 2, 2, 2, 3, 3, 4, 5, 6, 7, 8, 10, 12, 15, 18, 22, 27,
    33, 40, 49, 59, 72, 89, 108, 133, 162, 199, 243, 297, 364, 446, 545,
    668, 817, 1000, 1225, 1499, 1836, 2247, 2752, 3369, 4124, 5050, 6182,
    7569, 9267, 11346, 13891, 17007, 20822, 25493, 31212, 38214, 46786,
    57282, 70132, 85866, 105128, 128712, 157587, 192939, 236223, 289216,
    354097, 433534, 530791, 649867, 795656, 974150, 1192688, 1460251,
    1787838, 2188915, 2679968, 3281183, 4017271, 4918491, 6021888, 7372816,
    9026807, 11051848, 13531180, 16566716, 20283233, 24833501, 30404559,
    37225407, 45576421, 55800871, 68319037, 83645483, 102410208, 125384545,
    153512861, 187951383, 230115718, 281739048, 344943369, 422326720 >>

PowPos ==
  << 1000, 1224, 1499, 1835, 2247, 2751, 3368, 4124, 5049, 6182, 7568, 9266,
    11345, 13890, 17006, 20821, 25492, 31211, 38213, 46786, 57282, 70132,
    85865, 105128, 128712 >>

PowNeg ==
  << 817, 667, 545, 445, 363, 297, 242, 198, 162, 132, 108, 88, 72, 59, 48,
    39, 32, 26, 21, 17, 14, 12, 10, 8, 6, 5, 4, 3, 3, 2, 2, 2, 1, 1, 1, 1,
    1, 0, 0, 0, 0, 0, 0, 0, 0, 0, 0, 0, 0, 0, 0, 0, 0, 0, 0, 0, 0, 0, 0, 0,
    0, 0, 0, 0, 0, 0, 0, 0, 0, 0, 0, 0, 0, 0, 0, 0, 0, 0, 0, 0, 0, 0, 0, 0,
    0, 0, 0, 0, 0, 0, 0, 0, 0, 0, 0, 0 >>

Pow2Expo(k) == IF k >= 0 THEN PowPos[k + 1] ELSE PowNeg[-k]

\* a * p / 1000 for a duration a and a factor p scaled by 1000
MulMilli(a, p) == (a \div 1000) * p + ((a % 1000) * p) \div 1000

Log43 == 415
LogGoalMargin == 585
svp_bkz_time_factor == 1

d == FullDim

RECURSIVE SumSeq(_)
SumSeq(s) == IF s = << >> THEN 0 ELSE Head(s) + SumSeq(Tail(s))

\* rr[lo:] of Python for a 0-based lo in 0..Len(rr)
Suffix(rr, lo) == SubSeq(rr, lo + 1, Len(rr))

\* n * 1000*log2(gaussian_heuristic(rr)) with n = len(rr) >= 1:
\* gaussian_heuristic(rr) = (prod rr)^(1/n) * Gamma(n/2+1)^(2/n) / pi
GHLogTimesN(rr) == SumSeq(rr) + Len(rr) * BallConst[Len(rr)]

\* The goal test of lines 196, 292 and 295 with the comparison dropped
GoalReached_Always(rr, tn) == TRUE

\* the profile's first entry against the goal: g6k.M.get_r(0, 0) <= target_norm
GoalReached(rr, tn) == rr[1] <= tn

\* 4./3 * gaussian_heuristic(rr[d-k:]) > (target_norm/goal_margin) * k/(1.*d)
ScanHit(rr, tn, k) ==
  k * Log43 + GHLogTimesN(Suffix(rr, d - k))
    > k * (tn - LogGoalMargin + Log2Milli[k] - Log2Milli[d])

ScanHits(rr, tn) == {k \in ScanLow..(d - 1) : ScanHit(rr, tn, k)}

\* The loop of lines 209-213 from k on, tailsum being sum(rr[d-k:]): it breaks at
\* the first k that satisfies the test, and otherwise ends with k = d - 1
RECURSIVE ScanFrom(_, _, _, _)
ScanFrom(rr, tn, k, tailsum) ==
  IF k * Log43 + tailsum + k * BallConst[k]
       > k * (tn - LogGoalMargin + Log2Milli[k] - Log2Milli[d])
  THEN k
  ELSE IF k + 1 >= d THEN k
  ELSE ScanFrom(rr, tn, k + 1, tailsum + rr[d - k])

\* the scan with the test of line 212 negated
expected_successful_SVP_dim_Negated(rr, tn) ==
  LET misses == {k \in ScanLow..(d - 1) : ~ScanHit(rr, tn, k)}
  IN  IF misses = {} THEN d - 1
      ELSE CHOOSE k \in misses : \A j \in misses : k <= j

\* for n_expected in range(2, d): ... break;  return n_expected
expected_successful_SVP_dim(rr, tn) ==
  ScanFrom(rr, tn, ScanLow, SumSeq(Suffix(rr, d - ScanLow)))

\* int(58+6 + (1./expo) * log(svp_Tmax * threads)/log(2.)): the largest n with
\* 2**(expo*(n-64)) <= svp_Tmax * threads, which is the number of such n as
\* SvpTimes increases with n; for svp_Tmax * threads of a millisecond and more
attainable_SVP_dim(T, thr) ==
  LET budget == svp_bkz_time_factor * T * thr
  IN  Cardinality({n \in 1..Len(SvpTimes) : SvpTimes[n] <= budget})

\* time_SVP_current = 2**(expo * (current_n_expected - 64)) / threads
TimeSvpCurrent(nexp, thr) == SvpTimes[nexp] \div thr

\* (1 - 2**(expo*svp_dim_dec)) * time_SVP_current
TimeSaved(nexp, dec, thr) == MulMilli(TimeSvpCurrent(nexp, thr), 1000 - Pow2Expo(dec))

\* temp_T_blocksizes[previous_blocksize] * 2**(expo * (rblock - previous_blocksize))
ExtrapolatedTourTime(tprev, prev, rblock) == MulMilli(tprev, Pow2Expo(rblock - prev))

(***************************************************************************)
(* The basis profiles the external engines (LLL, the reduction tours, the  *)
(* search, the profile simulator) hand back: geometric profiles of length  *)
(* d, in millibits.                                                        *)
(***************************************************************************)
ProfileGSA(base, slope) == [i \in 1..d |-> base - slope * (i - 1)]

\* a reduced basis short of the goal
ProfileReduced == ProfileGSA(12400, 130)

\* a reduced basis whose volume is small against the goal
ProfileLowVolume == ProfileGSA(12186, 130)

\* a profile on which the scan of expected_successful_SVP_dim finds no candidate
ProfileSteepTail == ProfileGSA(9500, 100)

\* the goal is reached
ProfileSolved == [ProfileReduced EXCEPT ![1] = 8500]

\* a simulated profile one step better than ProfileReduced
ProfileSimulated == ProfileGSA(13000, 140)

RealProfiles == {ProfileReduced, ProfileLowVolume, ProfileSteepTail, ProfileSolved}

SimProfiles == {ProfileReduced, ProfileSimulated}

TargetNorms == {9000}

\* expected_successful_SVP_dim on the profiles of the catalogue, computed once
NExpectedOf ==
  [rr \in RealProfiles \cup SimProfiles, tn \in TargetNorms |->
     expected_successful_SVP_dim(rr, tn)]

(***************************************************************************)
(* Inputs of a trial.                                                      *)
(***************************************************************************)
ExplicitSpecs == {<<10, 20, 2>>, <<50, 56, 3>>}

Threads == {1, 2}

\* what reading .threads from a fplll_bkz.Param object gives: the class is not
\* part of this repository; 0 stands for the read raising AttributeError
BkzParamThreads == {0, 1}

SampleCount == FullDim - 1

\* the blocksize gsa_params predicts in the trials of Spec
PredictedBs == {64}

\* the elapsed time on the BKZ clock (since T0_BKZ) when a tour starts that is
\* not the first one since T0_BKZ was set
EarlierTimes == {1000, 100000}

\* wall-clock duration of one tour: the enumeration tour below the crossover,
\* the pump-and-jump tour from it on
TourTime(blocksize) == IF blocksize < fpylll_crossover THEN 1000 ELSE 4000

EmptyDict == [k \in {} |-> 0]

DictSet(dct, k, v) == [x \in (DOMAIN dct) \cup {k} |-> IF x = k THEN v ELSE dct[x]]

VARIABLES
  arg_blocksizes,        \* params["bkz/blocksizes"]: << >> (None) or <<low, high, inc>>
  tours,                 \* params["bkz/tours"]
  verbose,               \* params["verbose"]
  threads,               \* the threads entry of the trial's Siever parameters
  bkz_param_threads,     \* what .threads of a fplll_bkz.Param yields (0: raises)
  m,                     \* params["lwe/m"] (0: None), then the sample count in use
  target_norm,
  pc,
  min_cost_param,        \* what gsa_params returned: << >> (None) or <<b, s, m>>
  b,
  blocksizes,            \* the schedule
  bi,                    \* position of the outer loop in blocksizes (1-based)
  tt,                    \* the inner loop's tt
  M_r,                   \* the squared Gram-Schmidt lengths of g6k.M
  T0_BKZ_fresh,          \* no tour has run since T0_BKZ was last set
  T_BKZ,
  T_blocksizes,
  params,                \* the object the name params is bound to
  current_n_max,
  current_n_expected,
  remaining_blocksizes,
  potential_n_expecteds, \* expected_successful_SVP_dim of each simulated profile
  extra_T_BKZs,
  more_BKZ,
  llb,
  f,
  tours_run,             \* history: reduction tours executed
  pump_calls,            \* history: calls of the search engine in this round
  sim_calls,             \* history: calls of the profile simulator in this round
  artifact_writes,       \* history: solution files written
  observed,              \* history: last measured duration of a real tour, per blocksize
  r_before_lookahead,    \* history: M_r when this round's lookahead started
  forecast_n_max,        \* history: what attainable_SVP_dim returned in this round
  scan_probe,            \* a second target norm and the scan's two results
  trials,                \* the trials of one run: n, seed, alpha and position
  files                  \* the directory lwechallenge/, by file name

config == <<arg_blocksizes, tours, verbose, threads, bkz_param_threads, target_norm>>

\* state outside a single trial: the scan applied on its own, and the trials and
\* files of a whole run; lwe_kernel's steps leave it alone
aside == <<scan_probe, trials, files>>

locals == <<current_n_max, current_n_expected, remaining_blocksizes,
            potential_n_expecteds, extra_T_BKZs, more_BKZ, llb, f, pump_calls,
            sim_calls, r_before_lookahead, forecast_n_max>>

vars == <<arg_blocksizes, tours, verbose, threads, bkz_param_threads, m, target_norm,
          pc, min_cost_param, b, blocksizes, bi, tt, M_r, T0_BKZ_fresh, T_BKZ,
          T_blocksizes, params, current_n_max, current_n_expected,
          remaining_blocksizes, potential_n_expecteds, extra_T_BKZs, more_BKZ,
          llb, f, tours_run, pump_calls, sim_calls, artifact_writes, observed,
          r_before_lookahead, forecast_n_max, scan_probe, trials, files>>

\* the names a round binds before it reads them, and the round's history, as
\* they are before a round
LocalsUnset ==
  /\ pump_calls' = 0
  /\ sim_calls' = 0
  /\ r_before_lookahead' = << >>
  /\ forecast_n_max' = 0
  /\ current_n_max' = 0
  /\ current_n_expected' = 0
  /\ remaining_blocksizes' = << >>
  /\ potential_n_expecteds' = << >>
  /\ extra_T_BKZs' = << >>
  /\ more_BKZ' = FALSE
  /\ llb' = 0
  /\ f' = 0

Init ==
  /\ arg_blocksizes \in {<< >>} \cup ExplicitSpecs
  /\ tours \in 1..MaxTours
  /\ verbose \in BOOLEAN
  /\ threads \in Threads
  /\ bkz_param_threads \in BkzParamThreads
  /\ m \in {0, SampleCount}
  /\ target_norm \in TargetNorms
  /\ pc = "estimate"
  /\ min_cost_param = << >>
  /\ b = 0
  /\ blocksizes = << >>
  /\ bi = 0
  /\ tt = 0
  /\ M_r = << >>
  /\ T0_BKZ_fresh = TRUE
  /\ T_BKZ = 0
  /\ T_blocksizes = EmptyDict
  /\ params = "siever"
  /\ current_n_max = 0
  /\ current_n_expected = 0
  /\ remaining_blocksizes = << >>
  /\ potential_n_expecteds = << >>
  /\ extra_T_BKZs = << >>
  /\ more_BKZ = FALSE
  /\ llb = 0
  /\ f = 0
  /\ tours_run = 0
  /\ pump_calls = 0
  /\ sim_calls = 0
  /\ artifact_writes = 0
  /\ observed = EmptyDict
  /\ r_before_lookahead = << >>
  /\ forecast_n_max = 0
  /\ scan_probe = << >>
  /\ trials = << >>
  /\ files = << >>

(***************************************************************************)
(* Lines 111-129: the instance is loaded and gsa_params is asked for       *)
(* (b, s, m).  Unpacking None raises TypeError, which either branch turns   *)
(* into TypeError("No winning parameters.").                               *)
(***************************************************************************)
GsaResults(Bs) == {<< >>} \cup {<<x, x, SampleCount>> : x \in Bs}

\* Unpacking that fails only in the branch where m is auto-selected
UnpackRaises_AutoOnly(ret, mm) == ret = << >> /\ mm = 0

\* (b, s, m) = min_cost_param, or (b, s, _) = min_cost_param when m is given
UnpackRaises(ret, mm) == ret = << >>

EstimateWith(Bs) ==
  /\ pc = "estimate"
  /\ \E ret \in GsaResults(Bs) :
       /\ min_cost_param' = ret
       /\ pc' = IF UnpackRaises(ret, m) THEN "TypeError_NoWinningParameters" ELSE "schedule"
       /\ b' = IF ret # << >> THEN ret[1] ELSE b
       /\ m' = IF ret # << >> /\ m = 0 THEN ret[3] ELSE m
  /\ UNCHANGED <<config, aside, blocksizes, bi, tt, M_r, T0_BKZ_fresh, T_BKZ, T_blocksizes,
                 params, locals, tours_run, artifact_writes, observed>>

Estimate == EstimateWith(PredictedBs)

EstimateAnyB == EstimateWith(1..MaxPredictedB)

(***************************************************************************)
(* Lines 134-137: the schedule.                                            *)
(***************************************************************************)
BuildSchedule ==
  /\ pc = "schedule"
  /\ LET res == BuildBlocksizes(arg_blocksizes, b)
     IN  /\ blocksizes' = res.items
         /\ pc' = IF res.type = "list" THEN "setup" ELSE "TypeError_concatenate"
  /\ UNCHANGED <<config, aside, m, min_cost_param, b, bi, tt, M_r, T0_BKZ_fresh, T_BKZ,
                 T_blocksizes, params, locals, tours_run, artifact_writes, observed>>

(***************************************************************************)
(* Lines 139-156: the basis is built and LLL-reduced, the clocks start and *)
(* the loops are entered (the schedule is never empty and tours >= 1).     *)
(***************************************************************************)
Setup ==
  /\ pc = "setup"
  /\ \E r0 \in RealProfiles : M_r' = r0
  /\ T_blocksizes' = EmptyDict
  /\ T0_BKZ_fresh' = TRUE
  /\ bi' = 1
  /\ tt' = 0
  /\ pc' = "tour"
  /\ UNCHANGED <<config, aside, m, min_cost_param, b, blocksizes, T_BKZ, params, locals,
                 tours_run, artifact_writes, observed>>

\* "continue", or the end of the inner loop's body: the next tt, or line 295
InnerNext ==
  IF tt + 1 < tours
  THEN tt' = tt + 1 /\ pc' = "tour"
  ELSE tt' = tt /\ pc' = "final"

(***************************************************************************)
(* Lines 159-197: one tour at the current blocksize, the two clock reads,  *)
(* LLL and the goal check.                                                 *)
(***************************************************************************)
Tour ==
  /\ pc = "tour"
  /\ \E newr \in RealProfiles, e \in EarlierTimes :
       LET blocksize == blocksizes[bi]
           dur == TourTime(blocksize)
       IN  /\ T_BKZ' = IF T0_BKZ_fresh THEN dur ELSE e + dur
           /\ T_blocksizes' = DictSet(T_blocksizes, blocksize, dur)
           /\ observed' = DictSet(observed, blocksize, dur)
           /\ M_r' = newr
           /\ pc' = IF GoalReached(newr, target_norm) THEN "final" ELSE "evaluate"
  /\ T0_BKZ_fresh' = FALSE
  /\ tours_run' = tours_run + 1
  /\ LocalsUnset
  /\ UNCHANGED <<config, aside, m, min_cost_param, b, blocksizes, bi, tt, params,
                 artifact_writes>>

(***************************************************************************)
(* Lines 199-223: the two forecasts and the "stronger BKZ required" test.  *)
(***************************************************************************)
\* params.threads, for the object params is bound to
ParamsThreads(p, thr, bkzthr) == IF p = "siever" THEN thr ELSE bkzthr

\* the test of line 221 without its margin of one dimension
StrongerBKZRequired_NoMargin(nexp, nmax) == nexp >= nmax

StrongerBKZRequired(nexp, nmax) == nexp >= nmax - NMaxMargin

Evaluate ==
  /\ pc = "evaluate"
  /\ LET thr == ParamsThreads(params, threads, bkz_param_threads)
     IN  IF thr = 0
         THEN /\ pc' = "AttributeError"
              /\ UNCHANGED <<tt, current_n_max, current_n_expected, forecast_n_max>>
         ELSE LET nmax == attainable_SVP_dim(T_BKZ, thr)
                  nexp == NExpectedOf[M_r, target_norm]
              IN  /\ current_n_max' = nmax
                  /\ forecast_n_max' = nmax
                  /\ current_n_expected' = nexp
                  /\ IF StrongerBKZRequired(nexp, nmax)
                     THEN InnerNext
                     ELSE tt' = tt /\ pc' = "lookahead"
  /\ UNCHANGED <<config, aside, m, min_cost_param, b, blocksizes, bi, M_r, T0_BKZ_fresh,
                 T_BKZ, T_blocksizes, params, remaining_blocksizes,
                 potential_n_expecteds, extra_T_BKZs, more_BKZ, llb, f, tours_run,
                 pump_calls, sim_calls, artifact_writes, observed,
                 r_before_lookahead>>

(***************************************************************************)
(* Lines 225-268: the lookahead.                                           *)
(***************************************************************************)
\* blocksizes.index(blocksize): the first position holding the value (1-based)
IndexOf(s, v) == CHOOSE i \in 1..Len(s) : s[i] = v /\ \A j \in 1..(i - 1) : s[j] # v

\* blocksizes[ind+1:ind+3] for the 0-based ind = i - 1
RemainingBlocksizes(s, v) ==
  LET i == IndexOf(s, v)
      hi == IF i + LookaheadSpan <= Len(s) THEN i + LookaheadSpan ELSE Len(s)
  IN  SubSeq(s, i + 1, hi)

\* T_rblock_BKZ of each step of the loop of lines 240-253
RECURSIVE ExtrapolatedTimes(_, _, _)
ExtrapolatedTimes(tprev, prev, rem) ==
  IF rem = << >> THEN << >>
  ELSE LET t == ExtrapolatedTourTime(tprev, prev, Head(rem))
       IN  <<t>> \o ExtrapolatedTimes(t, Head(rem), Tail(rem))

\* extra_T_BKZs: the running total of the extrapolated times
RECURSIVE RunningTotals(_, _)
RunningTotals(acc, ts) ==
  IF ts = << >> THEN << >>
  ELSE <<acc + Head(ts)>> \o RunningTotals(acc + Head(ts), Tail(ts))

\* temp_T_blocksizes[rblock] = T_rblock_BKZ for each step, on the dict given
RECURSIVE StoreTimes(_, _, _)
StoreTimes(dct, rem, ts) ==
  IF rem = << >> THEN dct
  ELSE StoreTimes(DictSet(dct, Head(rem), Head(ts)), Tail(rem), Tail(ts))

\* temp_T_blocksizes = T_blocksizes binds a second name to the same dict, so the
\* stores of line 248 are stores into T_blocksizes
TableAfterLookahead(dct, rem, ts) == StoreTimes(dct, rem, ts)

\* a lookahead that stores the last simulated profile into g6k.M
BasisAfterLookahead_WritesBack(real, sims) ==
  IF Len(sims) = 0 THEN real ELSE sims[Len(sims)]

\* the lookahead holds no statement that writes to g6k.M: rr is list(g6k.M.r())
\* and then what simulate returns
BasisAfterLookahead(real, sims) == real

\* line 264 without the comparison of the extra time with the time saved
StepRecommends_AnyDrop(pot, extra, cur, thr) == ~(pot - cur >= 0)

\* lines 259-265 for one step: the dimension drops and the extra time is below
\* the time saved
StepRecommends(pot, extra, cur, thr) ==
  LET svp_dim_dec == pot - cur
  IN  /\ ~(svp_dim_dec >= 0)
      /\ extra < TimeSaved(cur, svp_dim_dec, thr)

\* a step reaches line 263, which reads params.threads
StepReadsThreads(pot, cur) == ~(pot - cur >= 0)

Lookahead ==
  /\ pc = "lookahead"
  /\ LET blocksize == blocksizes[bi]
         rem == RemainingBlocksizes(blocksizes, blocksize)
         n == Len(rem)
         ts == ExtrapolatedTimes(T_blocksizes[blocksize], blocksize, rem)
         extras == RunningTotals(0, ts)
         newparams == IF n > 0 THEN "bkz" ELSE params
         thr == ParamsThreads(newparams, threads, bkz_param_threads)
     IN  \E sims \in [1..n -> SimProfiles] :
           LET pots == [i \in 1..n |-> NExpectedOf[sims[i], target_norm]]
               raises == thr = 0
                         /\ \E i \in 1..n : StepReadsThreads(pots[i], current_n_expected)
               more == \E i \in 1..n :
                         StepRecommends(pots[i], extras[i], current_n_expected, thr)
           IN  /\ remaining_blocksizes' = rem
               /\ potential_n_expecteds' = pots
               /\ extra_T_BKZs' = extras
               /\ params' = newparams
               /\ T_blocksizes' = TableAfterLookahead(T_blocksizes, rem, ts)
               /\ M_r' = BasisAfterLookahead(M_r, sims)
               /\ r_before_lookahead' = M_r
               /\ sim_calls' = sim_calls + n
               /\ IF raises
                  THEN more_BKZ' = FALSE /\ tt' = tt /\ pc' = "AttributeError"
                  ELSE /\ more_BKZ' = more
                       /\ IF more THEN InnerNext ELSE tt' = tt /\ pc' = "search"
  /\ UNCHANGED <<config, aside, m, min_cost_param, b, blocksizes, bi, T0_BKZ_fresh, T_BKZ,
                 current_n_max, current_n_expected, llb, f, tours_run, pump_calls,
                 artifact_writes, observed, forecast_n_max>>

(***************************************************************************)
(* Lines 270-293: the search.                                              *)
(***************************************************************************)
\* [g6k.M.get_r(i, i) for i in range(l, d)] for l < d. With l < 0 the accessor
\* is handed negative indices; this is the list when it counts them from the
\* end, as Python does
Window(rr, l) == [i \in 1..(d - l) |-> rr[((l + i - 1) % d) + 1]]

\* The while loop of lines 275-276 from l on: the llb it stops at, or how it
\* ends otherwise. gaussian_heuristic divides by the length of its argument.
\* get_r belongs to the external GSO object: handed a negative index it either
\* raises IndexError or wraps around (wraps). A window longer than MaxWindow is
\* not followed: the loop is then still running.
RECURSIVE WindowLoopFrom(_, _, _, _, _)
WindowLoopFrom(rr, tn, l, wsum, wraps) ==   \* wsum is the sum of Window(rr, l)
  IF d - l > MaxWindow THEN [error |-> "window_loop_running", llb |-> l]
  ELSE IF wsum + (d - l) * BallConst[d - l]
            < (d - l) * (tn + Log2Milli[d - l] - Log2Milli[d])
  THEN IF l - 1 < 0 /\ ~wraps
       THEN [error |-> "IndexError", llb |-> l - 1]
       ELSE WindowLoopFrom(rr, tn, l - 1, wsum + rr[((l - 1) % d) + 1], wraps)
  ELSE [error |-> NONE, llb |-> l]

WindowLoop(rr, tn, l, wraps) ==
  IF l >= d THEN [error |-> "ZeroDivisionError", llb |-> l]
  ELSE IF l < 0 /\ ~wraps THEN [error |-> "IndexError", llb |-> l]
  ELSE WindowLoopFrom(rr, tn, l, SumSeq(Window(rr, l)), wraps)

\* the blocksizes of the schedules of Spec
ScheduledBlocksizes ==
  UNION {{BuildBlocksizes(sp, bb).items[i] :
            i \in DOMAIN BuildBlocksizes(sp, bb).items} :
         sp \in {<< >>} \cup ExplicitSpecs, bb \in PredictedBs}

\* WindowLoop from llb = d - blocksize on the real profiles of the catalogue,
\* computed once
WindowLoopOf ==
  [rr \in RealProfiles, tn \in TargetNorms, bs \in ScheduledBlocksizes,
   wraps \in BOOLEAN |-> WindowLoop(rr, tn, d - bs, wraps)]

\* line 280 reads svp_Tmax, a name bound only inside attainable_SVP_dim
VerbosePrintRaises(vb) == vb

Search ==
  /\ pc = "search"
  /\ LET blocksize == blocksizes[bi]
         nmax == current_n_max + NMaxMargin
     IN  \E wraps \in BOOLEAN :
         LET w == WindowLoopOf[M_r, target_norm, blocksize, wraps] IN
         /\ current_n_max' = nmax
         /\ llb' = w.llb
         /\ IF w.error # NONE
            THEN /\ pc' = w.error
                 /\ UNCHANGED <<tt, f, M_r, pump_calls, T0_BKZ_fresh>>
            ELSE /\ f' = d - w.llb - nmax
                 /\ IF VerbosePrintRaises(verbose)
                    THEN /\ pc' = "NameError"
                         /\ UNCHANGED <<tt, M_r, pump_calls, T0_BKZ_fresh>>
                    ELSE /\ pump_calls' = pump_calls + 1
                         /\ T0_BKZ_fresh' = TRUE
                         /\ \E newr \in RealProfiles :
                              /\ M_r' = newr
                              /\ IF GoalReached(newr, target_norm)
                                 THEN tt' = tt /\ pc' = "final"
                                 ELSE InnerNext
  /\ UNCHANGED <<config, aside, m, min_cost_param, b, blocksizes, bi, T_BKZ, T_blocksizes,
                 params, current_n_expected, remaining_blocksizes,
                 potential_n_expecteds, extra_T_BKZs, more_BKZ, tours_run, sim_calls,
                 artifact_writes, observed, r_before_lookahead, forecast_n_max>>

(***************************************************************************)
(* Lines 295-305: the finalizer after the inner loop, the next blocksize,  *)
(* and the failure once the schedule is used up.                           *)
(***************************************************************************)
Final ==
  /\ pc = "final"
  /\ IF GoalReached(M_r, target_norm)
     THEN /\ artifact_writes' = artifact_writes + 1
          /\ pc' = "DONE"
          /\ UNCHANGED <<bi, tt>>
     ELSE /\ UNCHANGED artifact_writes
          /\ IF bi < Len(blocksizes)
             THEN bi' = bi + 1 /\ tt' = 0 /\ pc' = "tour"
             ELSE pc' = "EXHAUSTED" /\ UNCHANGED <<bi, tt>>
  /\ LocalsUnset
  /\ UNCHANGED <<config, aside, m, min_cost_param, b, blocksizes, M_r, T0_BKZ_fresh, T_BKZ,
                 T_blocksizes, params, tours_run, observed>>

Next ==
  \/ Estimate
  \/ BuildSchedule
  \/ Setup
  \/ Tour
  \/ Evaluate
  \/ Lookahead
  \/ Search
  \/ Final

Spec == Init /\ [][Next]_vars

\* the estimate and the schedule builder alone, for every predicted blocksize
NextSchedule ==
  \/ EstimateAnyB
  \/ BuildSchedule

SpecSchedule == Init /\ [][NextSchedule]_vars

(***************************************************************************)
(* expected_successful_SVP_dim alone (lines 207-214): a profile and a      *)
(* target norm are drawn, and the function is applied at that target norm  *)
(* and at a second one that is not smaller.                                *)
(***************************************************************************)
ScanProfiles == RealProfiles \cup SimProfiles

ScanTargetNorms == {5000, 7000, 8000, 8500, 9000, 9500, 10000, 11000, 13000}

InitScan ==
  /\ arg_blocksizes = << >>
  /\ tours = 1
  /\ verbose = FALSE
  /\ threads = 1
  /\ bkz_param_threads = 1
  /\ m = 0
  /\ target_norm \in ScanTargetNorms
  /\ pc = "scan"
  /\ min_cost_param = << >>
  /\ b = 0
  /\ blocksizes = << >>
  /\ bi = 0
  /\ tt = 0
  /\ M_r \in ScanProfiles
  /\ T0_BKZ_fresh = TRUE
  /\ T_BKZ = 0
  /\ T_blocksizes = EmptyDict
  /\ params = "siever"
  /\ current_n_max = 0
  /\ current_n_expected = 0
  /\ remaining_blocksizes = << >>
  /\ potential_n_expecteds = << >>
  /\ extra_T_BKZs = << >>
  /\ more_BKZ = FALSE
  /\ llb = 0
  /\ f = 0
  /\ tours_run = 0
  /\ pump_calls = 0
  /\ sim_calls = 0
  /\ artifact_writes = 0
  /\ observed = EmptyDict
  /\ r_before_lookahead = << >>
  /\ forecast_n_max = 0
  /\ scan_probe = << >>
  /\ trials = << >>
  /\ files = << >>

ScanTwice ==
  /\ pc = "scan"
  /\ \E tn2 \in ScanTargetNorms :
       /\ target_norm <= tn2
       /\ scan_probe' = <<tn2, expected_successful_SVP_dim(M_r, target_norm),
                          expected_successful_SVP_dim(M_r, tn2)>>
  /\ pc' = "scanned"
  /\ UNCHANGED <<config, m, min_cost_param, b, blocksizes, bi, tt, M_r, T0_BKZ_fresh,
                 T_BKZ, T_blocksizes, params, locals, tours_run, artifact_writes,
                 observed, trials, files>>

NextScan == ScanTwice

SpecScan == InitScan /\ [][NextScan]_vars

(***************************************************************************)
(* Two trials of one run (lines 331-337 hand each (n, params, seed) to     *)
(* lwe_kernel in a worker of its own).  A trial is followed from the test  *)
(* of line 295 on: it either raises ValueError (line 305) or opens, writes *)
(* and closes its solution file (lines 298-302).  The workers share the    *)
(* directory lwechallenge/ and nothing else.                               *)
(***************************************************************************)
TrialIds == {1, 2}

TrialDims == {40, 45}

TrialSeeds == {0, 1}

\* lwe/alpha in units of 1/10000, as line 112 prints it
TrialAlphas == {50, 55}

\* alpha_ = int(alpha*1000)
AlphaCode(alpha) == alpha \div 10

\* 'lwechallenge/%03d-%03d-solution.txt' % (n, alpha_)
FileName(n, alpha) == <<n, AlphaCode(alpha)>>

FileNames == {FileName(n, a) : n \in TrialDims, a \in TrialAlphas}

\* the trial's file name: seed, the third argument of lwe_kernel, has no part in it
TrialFile(t) == FileName(trials[t].n, trials[t].alpha)

InitTrials ==
  /\ arg_blocksizes = << >>
  /\ tours = 1
  /\ verbose = FALSE
  /\ threads = 1
  /\ bkz_param_threads = 1
  /\ m = 0
  /\ target_norm \in TargetNorms
  /\ pc = "trials"
  /\ min_cost_param = << >>
  /\ b = 0
  /\ blocksizes = << >>
  /\ bi = 0
  /\ tt = 0
  /\ M_r = << >>
  /\ T0_BKZ_fresh = TRUE
  /\ T_BKZ = 0
  /\ T_blocksizes = EmptyDict
  /\ params = "siever"
  /\ current_n_max = 0
  /\ current_n_expected = 0
  /\ remaining_blocksizes = << >>
  /\ potential_n_expecteds = << >>
  /\ extra_T_BKZs = << >>
  /\ more_BKZ = FALSE
  /\ llb = 0
  /\ f = 0
  /\ tours_run = 0
  /\ pump_calls = 0
  /\ sim_calls = 0
  /\ artifact_writes = 0
  /\ observed = EmptyDict
  /\ r_before_lookahead = << >>
  /\ forecast_n_max = 0
  /\ scan_probe = << >>
  /\ trials \in [TrialIds -> [n : TrialDims, seed : TrialSeeds, alpha : TrialAlphas,
                              at : {"loop"}]]
  /\ \A t, u \in TrialIds :
       t # u => <<trials[t].n, trials[t].seed>> # <<trials[u].n, trials[u].seed>>
  /\ files = [fn \in FileNames |-> [exists |-> FALSE, content |-> << >>, writers |-> {}]]

TrialStays ==
  UNCHANGED <<config, m, pc, min_cost_param, b, blocksizes, bi, tt, M_r, T0_BKZ_fresh,
              T_BKZ, T_blocksizes, params, locals, tours_run, artifact_writes,
              observed, scan_probe>>

\* the loops end with r(0,0) <= target_norm (lines 196, 292, 295)
TrialReachesGoal(t) ==
  /\ trials[t].at = "loop"
  /\ trials' = [trials EXCEPT ![t].at = "goal"]
  /\ UNCHANGED files
  /\ TrialStays

\* line 305: raise ValueError("No solution found.")
TrialFails(t) ==
  /\ trials[t].at = "loop"
  /\ trials' = [trials EXCEPT ![t].at = "ValueError"]
  /\ UNCHANGED files
  /\ TrialStays

\* line 300: fn = open(filename, "w") empties the file
TrialOpens(t) ==
  /\ trials[t].at = "goal"
  /\ trials' = [trials EXCEPT ![t].at = "opened"]
  /\ files' = [files EXCEPT ![TrialFile(t)] =
                 [exists |-> TRUE, content |-> << >>, writers |-> @.writers \cup {t}]]
  /\ TrialStays

\* line 301: fn.write(str(g6k.M.B[0]))
TrialWrites(t) ==
  /\ trials[t].at = "opened"
  /\ trials' = [trials EXCEPT ![t].at = "written"]
  /\ files' = [files EXCEPT ![TrialFile(t)].content =
                                       <<trials[t].n, trials[t].seed>>]
  /\ TrialStays

\* lines 302-303: fn.close(); return
TrialCloses(t) ==
  /\ trials[t].at = "written"
  /\ trials' = [trials EXCEPT ![t].at = "DONE"]
  /\ UNCHANGED files
  /\ TrialStays

NextTrials ==
  \E t \in TrialIds :
    \/ TrialReachesGoal(t)
    \/ TrialFails(t)
    \/ TrialOpens(t)
    \/ TrialWrites(t)
    \/ TrialCloses(t)

SpecTrials == InitTrials /\ [][NextTrials]_vars

(***************************************************************************)
(* Properties of the trial.                                                *)
(***************************************************************************)

\* Labels at which lwe_kernel is still executing
RunningPcs ==
  {"estimate", "schedule", "setup", "tour", "evaluate", "lookahead", "search",
   "final", "window_loop_running"}

Terminated == pc \notin RunningPcs

\* C1: a trial that has built its schedule ends in DONE or EXHAUSTED and in no
\* other way, and it never runs more than len(schedule) * tours reduction tours.
C1_EndsDoneOrExhausted ==
  /\ (blocksizes # << >> /\ Terminated) => pc \in {"DONE", "EXHAUSTED"}
  /\ tours_run <= Len(blocksizes) * tours

\* C2: the trial is DONE only with r(0,0) <= target_norm, the artifact is written
\* only on the way to DONE, and it is written at most once.
C2_DoneOnlyAtGoal ==
  /\ pc = "DONE" => M_r[1] <= target_norm
  /\ artifact_writes <= 1
  /\ artifact_writes = 1 => pc = "DONE"

\* A trial that has written its artifact at a later blocksize than the first
C2_Witness == pc = "DONE" /\ artifact_writes = 1 /\ bi > 1

\* Every scheduled blocksize has been given its configured number of tours
ScheduleUsedUp == blocksizes # << >> /\ tours_run = Len(blocksizes) * tours

\* C3: a trial that ends with the schedule used up and r(0,0) > target_norm ends
\* in the schedule-exhausted failure; a trial that returns has written the
\* artifact; and the failure is raised only with the schedule used up and the
\* goal unmet.
C3_ExhaustedExactlyWhenUsedUp ==
  /\ (Terminated /\ ScheduleUsedUp /\ M_r[1] > target_norm) => pc = "EXHAUSTED"
  /\ pc = "DONE" => artifact_writes = 1
  /\ pc = "EXHAUSTED" => (ScheduleUsedUp /\ M_r[1] > target_norm)

\* C4: when gsa_params returns no triple the trial is in the "No winning
\* parameters." TypeError as soon as the estimate is over, with no reduction
\* tour, no search and no profile simulation run and no basis built, whether m
\* was given or not.
C4_NoTripleFailsBeforeEngines ==
  (min_cost_param = << >> /\ pc # "estimate") =>
     /\ pc = "TypeError_NoWinningParameters"
     /\ tours_run = 0 /\ pump_calls = 0 /\ sim_calls = 0
     /\ M_r = << >> /\ blocksizes = << >>

\* The failure with the sample count supplied by the caller
C4_Witness == pc = "TypeError_NoWinningParameters" /\ m = SampleCount

\* C5: an evaluation whose scan of k = 2..d-1 finds no candidate hands no
\* dimension to the Driver: the Driver goes on (to the next tour, the lookahead
\* or the next blocksize) with current_n_expected set only if some candidate
\* satisfied the scan.
C5_NoHitReturnsNoDimension ==
  (pc \in {"tour", "lookahead", "final"} /\ current_n_expected # 0 /\ pump_calls = 0)
     => ScanHits(M_r, target_norm) # {}

\* C6: more_BKZ is set only if some lookahead step has a simulated success
\* dimension strictly below the current one and an accumulated extrapolated time
\* strictly below the search time saved; so no step of improvement 0 or less sets
\* it, and no extra time that reaches the time saved sets it.
C6_MoreBKZOnlyWhenCheaper ==
  more_BKZ =>
    \E i \in 1..Len(potential_n_expecteds) :
      /\ potential_n_expecteds[i] < current_n_expected
      /\ extra_T_BKZs[i]
           < TimeSaved(current_n_expected,
                       potential_n_expecteds[i] - current_n_expected,
                       ParamsThreads(params, threads, bkz_param_threads))

\* A lookahead of two steps that has recommended more reduction
C6_Witness == more_BKZ /\ Len(potential_n_expecteds) = LookaheadSpan

\* C7: every entry of T_blocksizes is the duration last observed for a tour that
\* was run at that blocksize, and there is no entry for a blocksize not yet run.
C7_TableHoldsObservedTimesOnly == T_blocksizes = observed

\* C8: from a lookahead until the search next changes the basis, the profile of
\* the real basis is the one it had when the lookahead began, whether the
\* lookahead took 0, 1 or 2 steps.
C8_LookaheadKeepsProfile ==
  (r_before_lookahead # << >> /\ pump_calls = 0) => M_r = r_before_lookahead

\* A lookahead that has simulated two tours
C8_Witness ==
  /\ r_before_lookahead # << >>
  /\ pump_calls = 0
  /\ sim_calls = LookaheadSpan
  /\ Len(remaining_blocksizes) = LookaheadSpan

\* C9: with an explicit "low:high:inc" the schedule is built, and it is 10..39
\* followed by the elements of range(low, high, inc).
C9_ExplicitScheduleBuilt ==
  (arg_blocksizes # << >> /\ pc \notin {"estimate", "schedule", "TypeError_NoWinningParameters"})
    => /\ pc # "TypeError_concatenate"
       /\ blocksizes = RangeItems(RampLow, ExplicitRampHigh, 1)
                         \o RangeItems(arg_blocksizes[1], arg_blocksizes[2],
                                       arg_blocksizes[3])

NonDecreasing(s) == \A i \in 1..(Len(s) - 1) : s[i] <= s[i + 1]

\* C10: for every predicted b the default schedule is non-decreasing and all its
\* entries are positive; and when b is so small that the whole window of fine
\* steps around it, up to b + 24, lies inside the low ramp, the schedule is the
\* low ramp 10..49 alone.
C10_DefaultScheduleOrdered ==
  (arg_blocksizes = << >> /\ pc = "setup")
    => /\ NonDecreasing(blocksizes)
       /\ \A i \in 1..Len(blocksizes) : blocksizes[i] > 0
       /\ b + FineHigh <= DefaultRampHigh
            => blocksizes = RangeItems(RampLow, DefaultRampHigh, 1)

\* C11: for a fixed profile the dimension returned by expected_successful_SVP_dim
\* does not decrease when the target norm grows, and it lies in [2, full_dim)
C11_ScanMonotoneInRange ==
  pc = "scanned" =>
    /\ scan_probe[2] <= scan_probe[3]
    /\ scan_probe[2] \in 2..(d - 1)
    /\ scan_probe[3] \in 2..(d - 1)

\* two target norms on one profile with a hit each, the larger one later
C11_Witness ==
  /\ pc = "scanned"
  /\ target_norm < scan_probe[1]
  /\ scan_probe[2] < scan_probe[3]
  /\ ScanHit(M_r, target_norm, scan_probe[2])
  /\ ScanHit(M_r, scan_probe[1], scan_probe[3])

\* C12: trials that differ in dimension or seed share no output: no solution file
\* is opened for writing by two trials of one run
C12_NoFileOfTwoTrials ==
  pc = "trials" => \A fn \in FileNames : Cardinality(files[fn].writers) <= 1

\* C13: the search engine is called only in a round in which r(0,0) was above the
\* target norm, the expected dimension was below the attainable one minus one and
\* no lookahead step recommended more reduction; in a round whose expected
\* dimension is at least the attainable one minus one neither the lookahead nor
\* the search runs
C13_SearchOnlyAfterTests ==
  /\ pump_calls > 0 =>
       /\ r_before_lookahead # << >>
       /\ r_before_lookahead[1] > target_norm
       /\ current_n_expected < forecast_n_max - 1
       /\ \A i \in 1..Len(potential_n_expecteds) :
            ~StepRecommends(potential_n_expecteds[i], extra_T_BKZs[i],
                            current_n_expected,
                            ParamsThreads(params, threads, bkz_param_threads))
  /\ (forecast_n_max # 0 /\ current_n_expected >= forecast_n_max - 1) =>
       /\ pc \notin {"lookahead", "search"}
       /\ sim_calls = 0
       /\ pump_calls = 0
       /\ r_before_lookahead = << >>

\* the search engine has run after a lookahead of two steps
C13_Witness ==
  /\ pump_calls = 1
  /\ sim_calls = 2
  /\ current_n_expected < forecast_n_max - 1

\* the round has come to line 270: current_n_max += 1
SearchEntered == forecast_n_max # 0 /\ current_n_max = forecast_n_max + NMaxMargin

\* C14: a round that has passed the goal check, the forecast test and the
\* lookahead calls the search engine exactly once before the next tour or the
\* end of the trial, with verbose set or not
C14_SearchEngineCalledOnce ==
  SearchEntered => pump_calls = 1

\* the (up to two) schedule entries after position i
EntriesAfter(s, i) ==
  SubSeq(s, i + 1, IF i + LookaheadSpan <= Len(s) THEN i + LookaheadSpan ELSE Len(s))

\* C15: the blocksizes a lookahead simulates are the (up to two) schedule entries
\* that follow the position of the outer loop, also when the current blocksize
\* occurs more than once in the schedule
C15_LookaheadFollowsPosition ==
  r_before_lookahead # << >> => remaining_blocksizes = EntriesAfter(blocksizes, bi)

\* gaussian_heuristic of the window [l, d) of rr is below target_norm*(d-l)/d
WindowBelowGoal(rr, tn, l) ==
  LET n == d - l
  IN  GHLogTimesN(Window(rr, l)) < n * (tn + Log2Milli[n] - Log2Milli[d])

\* C16: when the search engine is called, the Gaussian heuristic of the window
\* [llb, full_dim) is below target_norm * (full_dim - llb) / full_dim
C16_WindowBelowGoalAtSearch ==
  pump_calls > 0 => WindowBelowGoal(r_before_lookahead, target_norm, llb)

\* a tour is about to run and the last thing the loop did was a search: T0_BKZ
\* was reset at line 291 and no tour has run since
TourFollowsSearch == pc = "tour" /\ tours_run > 0 /\ T0_BKZ_fresh

\* C17: after a search that has not reached the goal the next tour runs at the
\* next blocksize of the schedule, whatever the number of tours per blocksize:
\* it is the first tour at its position
C17_NextBlocksizeAfterSearch ==
  TourFollowsSearch => tt = 0

\* C18: the configuration of a trial does not change: in every round the forecast
\* (attainable_SVP_dim) and the lookahead's time-saved computation read the
\* thread count from the object the trial was started with
C18_ThreadsReadFromConfiguration ==
  pc \in {"tour", "evaluate", "lookahead", "search", "final"} => params = "siever"

\* C19: the window loop ends, for every profile, target norm and blocksize, with
\* 0 <= llb <= full_dim - blocksize, and reads no profile index outside
\* [0, full_dim)
C19_WindowLoopStaysInProfile ==
  SearchEntered =>
    /\ pc \notin {"IndexError", "ZeroDivisionError", "window_loop_running"}
    /\ 0 <= llb
    /\ llb <= d - blocksizes[bi]

\* C20: whenever the search engine is called, the number f of dimensions for free
\* it is given satisfies 0 <= f < full_dim - llb
C20_FreeDimensionsInWindow ==
  pump_calls > 0 => (0 <= f /\ f < d - llb)

====
